---- MODULE Spec2Model ----
(***************************************************************************)
(* Model of the US / MPM registration notebooks                            *)
(* (src/.ipynb_checkpoints/Apply registration example-checkpoint.ipynb).   *)
(*                                                                         *)
(* Physical quantities (spacing, origin, translation) are integers.  The   *)
(* three versor components of a transform parameter vector are stored in   *)
(* halves, so that the rotations of the tetrahedral group (identity, the   *)
(* half turns about the axes, the third turns about the body diagonals)    *)
(* have integer parameters and integer matrices.                           *)
(***************************************************************************)
EXTENDS Integers, Sequences, FiniteSets, TLC

\* ------------------------------------------------------------------ bounds
MaxDim == 3
MaxApply == 4
MaxCoord == 1
MaxPos == 3
MaxShift == 1
MaxSize == 2
MaxSpacing == 2

\* ------------------------------------------------------- program constants
UInt8Mod == 256

\* ---------------------------------------------------------------- helpers
Idle == "idle"

SetMin(S) == CHOOSE x \in S : \A y \in S : x <= y
SetMax(S) == CHOOSE x \in S : \A y \in S : x >= y

\* index tuples (0-based) of an array of the given shape
Indices(shape) == (0..(shape[1]-1)) \X (0..(shape[2]-1)) \X (0..(shape[3]-1))

\* ---------------------------------------------------------- numpy arrays
\* an ndarray: shape (axis 0, axis 1, axis 2), dtype, data by index tuple
NdArray(shape, dtype, data) == [shape |-> shape, dtype |-> dtype, data |-> data]

\* np.swapaxes(arr, 0, 1)
swapaxes01(arr) ==
    LET sh == <<arr.shape[2], arr.shape[1], arr.shape[3]>>
    IN  NdArray(sh, arr.dtype,
                [ix \in Indices(sh) |-> arr.data[<<ix[2], ix[1], ix[3]>>]])

\* a flip along the wrong axis (axis 1 instead of axis 0)
flip_axis1(arr) ==
    NdArray(arr.shape, arr.dtype,
            [ix \in Indices(arr.shape) |->
                arr.data[<<ix[1], arr.shape[2] - 1 - ix[2], ix[3]>>]])

\* np.flip(arr, 0)
flip0(arr) ==
    NdArray(arr.shape, arr.dtype,
            [ix \in Indices(arr.shape) |->
                arr.data[<<arr.shape[1] - 1 - ix[1], ix[2], ix[3]>>]])

\* arr.astype(np.uint8): integer samples wrap modulo 2^8
astype_uint8(arr) ==
    NdArray(arr.shape, "uint8",
            [ix \in Indices(arr.shape) |-> arr.data[ix] % UInt8Mod])

\* ------------------------------------------------------- SimpleITK images
Identity3 == <<<<1, 0, 0>>, <<0, 1, 0>>, <<0, 0, 1>>>>
\* the direction set by open_us / open_mpm: [1, 0, 0, 0, 1, 0, 0, 0, -1]
ZMirror == <<<<1, 0, 0>>, <<0, 1, 0>>, <<0, 0, -1>>>>

PixelIDs == {"sitkUInt8", "sitkUInt16"}
PixelMax(pixelID) == IF pixelID = "sitkUInt8" THEN 255 ELSE 65535
DtypeOf(pixelID) == IF pixelID = "sitkUInt8" THEN "uint8" ELSE "uint16"
PixelIDOf(dtype) == IF dtype = "uint8" THEN "sitkUInt8" ELSE "sitkUInt16"

\* an image: size, spacing, origin are (x, y, z); pix is indexed by (x, y, z)
Image(size, spacing, origin, direction, pixelID, pix) ==
    [size |-> size, spacing |-> spacing, origin |-> origin,
     direction |-> direction, pixelID |-> pixelID, pix |-> pix]

\* sitk.GetArrayFromImage: the array is indexed (z, y, x)
GetArrayFromImage(image) ==
    LET sh == <<image.size[3], image.size[2], image.size[1]>>
    IN  NdArray(sh, DtypeOf(image.pixelID),
                [ix \in Indices(sh) |-> image.pix[<<ix[3], ix[2], ix[1]>>]])

\* sitk.GetImageFromArray: size is the reversed shape, the geometry is the
\* default one (unit spacing, zero origin, identity direction)
GetImageFromArray(arr) ==
    LET sz == <<arr.shape[3], arr.shape[2], arr.shape[1]>>
    IN  Image(sz, <<1, 1, 1>>, <<0, 0, 0>>, Identity3, PixelIDOf(arr.dtype),
              [ix \in Indices(sz) |-> arr.data[<<ix[3], ix[2], ix[1]>>]])

SetSpacing(image, spacing) == [image EXCEPT !.spacing = spacing]
SetOrigin(image, origin) == [image EXCEPT !.origin = origin]
SetDirection(image, direction) == [image EXCEPT !.direction = direction]

\* the axis swap without the flip that follows it
rotate_axes_swap_only(image) ==
    GetImageFromArray(astype_uint8(swapaxes01(GetArrayFromImage(image))))

\* rotate_axes_to_microscope
rotate_axes_to_microscope(image) ==
    LET arr == GetArrayFromImage(image)
        arr_rot == swapaxes01(arr)
        arr_rot2 == astype_uint8(flip0(arr_rot))
    IN  GetImageFromArray(arr_rot2)

\* ------------------------------------------------------ Python outcomes
\* a call either returns a value or raises
Return(v) == [ok |-> TRUE, value |-> v, error |-> "none"]
Raise(kind) == [ok |-> FALSE, value |-> <<>>, error |-> kind]

\* ------------------------------------------------------- position lists
\* JSON scalars of a position-list file: a number, or a string
Num(n) == [t |-> "num", v |-> n]
Str == [t |-> "str", v |-> 0]
\* one entry of the position list: the stage device's X and Y
Position(x, y) == [X |-> x, Y |-> y]
\* a file on disk: present with its content, or absent
File(content) == [exists |-> TRUE, content |-> content]
Missing == [exists |-> FALSE, content |-> <<>>]
\* a notebook variable no cell has assigned yet
Unbound == [ok |-> FALSE, value |-> <<>>, error |-> "unbound"]
IsUnbound(x) == x.error = "unbound"

\* util.read_json: the file's content, or an error when there is no file
read_json(file) ==
    IF ~file.exists THEN Raise("FileNotFoundError") ELSE Return(file.content)

\* np.array of a list of rows: one string makes the whole array a string array
np_array(rows) ==
    [dtype |-> IF \E i \in 1..Len(rows) : \E j \in 1..Len(rows[i]) : rows[i][j].t = "str"
               THEN "str" ELSE "int",
     rows |-> rows]

\* recon.clean_position_text(...)[0]: the array of the entries' [X, Y] rows
clean_position_text(raw) ==
    np_array([i \in 1..Len(raw) |-> <<raw[i].X, raw[i].Y>>])

Min2(a, b) == IF a <= b THEN a ELSE b

RECURSIVE ColumnMin(_, _, _)
\* the reduction of np.min along axis 0: the running minimum of column j
ColumnMin(rows, j, n) ==
    IF n = 1 THEN rows[1][j].v
    ELSE Min2(ColumnMin(rows, j, n - 1), rows[n][j].v)

\* the least row in lexicographic order (Python's min of a list of pairs)
np_min_row(a) ==
    IF Len(a.rows) = 0 THEN Raise("ValueError")
    ELSE IF a.dtype = "str" THEN Raise("TypeError")
    ELSE LET r == CHOOSE r \in {a.rows[i] : i \in 1..Len(a.rows)} :
                     \A i \in 1..Len(a.rows) :
                        \/ r[1].v < a.rows[i][1].v
                        \/ r[1].v = a.rows[i][1].v /\ r[2].v <= a.rows[i][2].v
         IN  Return(<<r[1].v, r[2].v>>)

\* a reduction that skips the rows holding a string
np_min_numeric_rows(a) ==
    LET keep == {i \in 1..Len(a.rows) : a.rows[i][1].t = "num" /\ a.rows[i][2].t = "num"}
    IN  IF keep = {} THEN Raise("ValueError")
        ELSE Return(<<SetMin({a.rows[i][1].v : i \in keep}),
                      SetMin({a.rows[i][2].v : i \in keep})>>)

\* np.min(a, 0): no reduction of an empty or of a string array
np_min_axis0(a) ==
    IF Len(a.rows) = 0 THEN Raise("ValueError")
    ELSE IF a.dtype = "str" THEN Raise("TypeError")
    ELSE Return([j \in 1..Len(a.rows[1]) |-> ColumnMin(a.rows, j, Len(a.rows))])

\* get_xy_origin
get_xy_origin(pl_path) ==
    LET raw_pos_list == read_json(pl_path)
    IN  IF ~raw_pos_list.ok THEN raw_pos_list
        ELSE LET pos_list == clean_position_text(raw_pos_list.value)
             IN  np_min_axis0(pos_list)

\* ---------------------------------------------------- vectors, matrices
Dot(u, v) == u[1] * v[1] + u[2] * v[2] + u[3] * v[3]
MatVec(M, v) == <<Dot(M[1], v), Dot(M[2], v), Dot(M[3], v)>>
Transpose(M) == [i \in 1..3 |-> [j \in 1..3 |-> M[j][i]]]
VecAdd(u, v) == <<u[1] + v[1], u[2] + v[2], u[3] + v[3]>>
VecSub(u, v) == <<u[1] - v[1], u[2] - v[2], u[3] - v[3]>>
Scale(s, v) == <<s[1] * v[1], s[2] * v[2], s[3] * v[3]>>

\* ------------------------------------------- sitk.VersorRigid3DTransform
\* Parameters: versor x, y, z (in halves), translation x, y, z.
NumberOfParameters == 6

\* the versor's scalar part, in halves: w = sqrt(1 - x^2 - y^2 - z^2) >= 0
VersorW(x, y, z) == CHOOSE w \in 0..2 : w * w = 4 - (x * x + y * y + z * z)

\* the rotation matrix of the unit quaternion (x, y, z, w)/2
VersorMatrix(x, y, z) ==
    LET w == VersorW(x, y, z)
    IN  <<<<(4 - 2 * (y * y + z * z)) \div 4, (2 * (x * y - z * w)) \div 4,
            (2 * (x * z + y * w)) \div 4>>,
          <<(2 * (x * y + z * w)) \div 4, (4 - 2 * (x * x + z * z)) \div 4,
            (2 * (y * z - x * w)) \div 4>>,
          <<(2 * (x * z - y * w)) \div 4, (2 * (y * z + x * w)) \div 4,
            (4 - 2 * (x * x + y * y)) \div 4>>>>

\* transform.SetParameters(transform_params): too few parameters and a versor
\* longer than 1 are refused; parameters beyond the sixth are not read
SetParameters(params) ==
    IF Len(params) < NumberOfParameters THEN Raise("RuntimeError")
    ELSE IF params[1] * params[1] + params[2] * params[2] + params[3] * params[3] > 4
         THEN Raise("RuntimeError")
    ELSE Return([matrix |-> VersorMatrix(params[1], params[2], params[3]),
                 translation |-> <<params[4], params[5], params[6]>>])

\* the translation added before the rotation instead of after it
TransformPointShiftFirst(transform, p) ==
    MatVec(transform.matrix, VecAdd(p, transform.translation))

\* TransformPoint: rotation about the (zero) centre, then translation
TransformPoint(transform, p) ==
    VecAdd(MatVec(transform.matrix, p), transform.translation)

\* k * transform_params on a numpy vector
scale_params_rotation_only(k, params) ==
    [i \in 1..Len(params) |-> IF i <= 3 THEN k * params[i] ELSE params[i]]

\* k * transform_params on a numpy vector
scale_params(k, params) == [i \in 1..Len(params) |-> k * params[i]]

\* ----------------------------------------------------------- sitk.Resample
\* physical position of the voxel at index ix
IndexToPhysical(image, ix) ==
    VecAdd(image.origin,
           MatVec(image.direction,
                  Scale(image.spacing, <<ix[1], ix[2], ix[3]>>)))

\* the continuous index of a physical point, as numerators over the
\* image's spacing (axis i: Offset[i] / spacing[i])
Offset(image, p) == MatVec(Transpose(image.direction), VecSub(p, image.origin))

\* IsInsideBuffer: -1/2 <= continuous index < size - 1/2 on every axis
IsInside(image, off) ==
    \A i \in 1..3 :
        /\ -image.spacing[i] <= 2 * off[i]
        /\ 2 * off[i] < (2 * image.size[i] - 1) * image.spacing[i]

\* the lower neighbour on axis i, never below the first voxel
BaseIndex(image, off, i) ==
    IF off[i] < 0 THEN 0 ELSE off[i] \div image.spacing[i]
\* distance from the lower neighbour, as a numerator over spacing[i]
Distance(image, off, i) ==
    IF off[i] < 0 THEN 0 ELSE off[i] % image.spacing[i]
\* the upper neighbour on axis i, never beyond the last voxel
UpperIndex(image, off, i) ==
    IF BaseIndex(image, off, i) + 1 > image.size[i] - 1
    THEN BaseIndex(image, off, i) ELSE BaseIndex(image, off, i) + 1

\* linear interpolation at a point inside the buffer: the weighted sum over
\* the eight neighbours, as a numerator over spacing[1]*spacing[2]*spacing[3]
LinearInterpolate(image, off) ==
    LET lo == [i \in 1..3 |-> BaseIndex(image, off, i)]
        hi == [i \in 1..3 |-> UpperIndex(image, off, i)]
        d  == [i \in 1..3 |-> Distance(image, off, i)]
        s  == image.spacing
        Wt(i, up) == IF up = 1 THEN d[i] ELSE s[i] - d[i]
        At(i, up) == IF up = 1 THEN hi[i] ELSE lo[i]
        Term(a, b, c) == Wt(1, a) * Wt(2, b) * Wt(3, c)
                            * image.pix[<<At(1, a), At(2, b), At(3, c)>>]
    IN  Term(0, 0, 0) + Term(1, 0, 0) + Term(0, 1, 0) + Term(1, 1, 0)
          + Term(0, 0, 1) + Term(1, 0, 1) + Term(0, 1, 1) + Term(1, 1, 1)

\* the cast of an interpolated value (num / den >= 0) to an integer sample
\* type: clamped to the type's range, fraction dropped
CastPixel(pixelID, num, den) ==
    IF num \div den > PixelMax(pixelID) THEN PixelMax(pixelID) ELSE num \div den

\* sitk.Resample(moving, reference, transform, sitkLinear, default, pixelID)
Resample(moving, reference, transform, defaultPixelValue, outputPixelType) ==
    Image(reference.size, reference.spacing, reference.origin,
          reference.direction, outputPixelType,
          [ix \in Indices(reference.size) |->
              LET off == Offset(moving,
                                TransformPoint(transform,
                                               IndexToPhysical(reference, ix)))
              IN  IF IsInside(moving, off)
                  THEN CastPixel(outputPixelType, LinearInterpolate(moving, off),
                                 moving.spacing[1] * moving.spacing[2]
                                    * moving.spacing[3])
                  ELSE defaultPixelValue])

\* the moving image taken as the reference grid
apply_transform_moving_grid(moving_image, fixed_image, transform_params) ==
    LET transform == SetParameters(transform_params)
    IN  IF ~transform.ok THEN transform
        ELSE Return(Resample(moving_image, moving_image, transform.value, 0,
                             moving_image.pixelID))

\* a background value other than 0
apply_transform_background_1(moving_image, fixed_image, transform_params) ==
    LET transform == SetParameters(transform_params)
    IN  IF ~transform.ok THEN transform
        ELSE Return(Resample(moving_image, fixed_image, transform.value, 1,
                             fixed_image.pixelID))

\* apply_transform
apply_transform(moving_image, fixed_image, transform_params) ==
    LET transform == SetParameters(transform_params)
    IN  IF ~transform.ok THEN transform
        ELSE Return(Resample(moving_image, fixed_image, transform.value, 0,
                             fixed_image.pixelID))

\* ------------------------------------------------- opening the images
\* dynamic_range = 50 (notebook cell 5)
dynamic_range == 50

\* sitk.ReadImage: the image stored in the file
ReadImage(file) ==
    IF ~file.exists THEN Raise("RuntimeError") ELSE Return(file.content)

\* proc.window_image (library call): the grid is kept, the samples are
\* limited to the dynamic range
window_image(image, range) ==
    [image EXCEPT !.pix = [ix \in DOMAIN image.pix |->
                              IF image.pix[ix] > range THEN range ELSE image.pix[ix]]]

\* open_us without the SetSpacing call: the spacing stays the default one
open_us_default_spacing(us_path, range, spacing, origin) ==
    LET raw_image == ReadImage(us_path)
    IN  IF ~raw_image.ok THEN raw_image
        ELSE Return(SetDirection(SetOrigin(
                 rotate_axes_to_microscope(window_image(raw_image.value, range)),
                 origin), ZMirror))

\* open_us
open_us(us_path, range, spacing, origin) ==
    LET raw_image == ReadImage(us_path)
    IN  IF ~raw_image.ok THEN raw_image
        ELSE LET windowed_image == window_image(raw_image.value, range)
                 us_image == rotate_axes_to_microscope(windowed_image)
             IN  Return(SetDirection(SetOrigin(SetSpacing(us_image, spacing),
                                               origin), ZMirror))

\* an OME descriptor: its tiles, each with StageLabel X, Y and PositionZ, or
\* a tile without one of these fields
Tile(x, y, z) == [complete |-> TRUE, pos |-> <<Num(x), Num(y), Num(z)>>]
BrokenTile == [complete |-> FALSE, pos |-> <<>>]

\* positions_from_ometif
positions_from_ometif(file_path) ==
    IF ~file_path.exists THEN Raise("RuntimeError")
    ELSE IF \E i \in 1..Len(file_path.content) : ~file_path.content[i].complete
         THEN Raise("KeyError")
    ELSE Return(np_array([i \in 1..Len(file_path.content) |->
                             file_path.content[i].pos]))

\* open_mpm
open_mpm(mpm_path, mpm_origin_path, spacing) ==
    LET positions == positions_from_ometif(mpm_origin_path)
    IN  IF ~positions.ok THEN positions
        ELSE LET origin == np_min_axis0(positions.value)
                 mpm_image == ReadImage(mpm_path)
             IN  IF ~origin.ok THEN origin
                 ELSE IF ~mpm_image.ok THEN mpm_image
                 ELSE Return(SetDirection(SetOrigin(
                          SetSpacing(mpm_image.value, spacing),
                          origin.value), ZMirror))

\* pickle.load of the transform file: whatever vector was stored
pickle_load(file) ==
    IF ~file.exists THEN Raise("FileNotFoundError") ELSE Return(file.content)

\* sitk.WriteImage
WriteImage(image) == File(image)

\* ------------------------------------------------------------ sample inputs
\* an image whose samples are all different: base + the voxel's raster rank
RampImage(size, spacing, origin, direction, pixelID, base) ==
    Image(size, spacing, origin, direction, pixelID,
          [ix \in Indices(size) |->
              base + ix[1] + size[1] * ix[2] + size[1] * size[2] * ix[3]])

\* ramps that fit the sample type; the 16-bit one crosses 2^8
RampBases(pixelID) == IF pixelID = "sitkUInt8" THEN {0, 7} ELSE {250}

\* position-list files: every list of up to MaxPos entries over the sample
\* scalars, the list [(1,5),(3,2),(0,9)], and no file at all
Scalars == {Num(n) : n \in 0..MaxCoord} \cup {Str}
Positions == {Position(x, y) : x \in Scalars, y \in Scalars}
ExampleList == <<Position(Num(1), Num(5)), Position(Num(3), Num(2)),
                 Position(Num(0), Num(9))>>
PositionLists ==
    UNION {[1..n -> Positions] : n \in 0..MaxPos} \cup {ExampleList}

\* every parameter triple in halves that is a versor with an integer matrix:
\* the identity, the half turns about the axes, the third turns about the
\* body diagonals
Versors ==
    {v \in (-2..2) \X (-2..2) \X (-2..2) :
        v[1] * v[1] + v[2] * v[2] + v[3] * v[3] \in {0, 3, 4}}
\* translations along one axis
Translations ==
    {<<k, 0, 0>> : k \in (-MaxShift)..MaxShift}
       \cup {<<0, k, 0>> : k \in (-MaxShift)..MaxShift}
       \cup {<<0, 0, k>> : k \in (-MaxShift)..MaxShift}
RigidParams == {<<v[1], v[2], v[3], t[1], t[2], t[3]>> : v \in Versors, t \in Translations}

\* the moving images of a round trip: every sample ramp on the unit grid,
\* and the 16-bit one on a grid twice as coarse
MovingSize == <<MaxSize + 1, MaxSize, 2>>
RoundTripMoving ==
    UNION {{RampImage(MovingSize, <<1, 1, 1>>, <<0, 0, 0>>, ZMirror,
                      pixelID, base) :
               base \in RampBases(pixelID)} : pixelID \in PixelIDs}
       \cup {RampImage(MovingSize, <<2, 2, 2>>, <<0, 0, 0>>, ZMirror,
                       "sitkUInt16", 250)}
\* the fixed grids (spacing, origin, sample type): the unit grid in either
\* sample type, the unit grid at another origin, a grid twice as coarse
FixedSize == <<MaxSize, MaxSize, 2>>
FixedGrids ==
    {<<1, <<0, 0, 0>>, "sitkUInt8">>, <<1, <<0, 0, 0>>, "sitkUInt16">>,
     <<1, <<1, 0, -1>>, "sitkUInt8">>, <<2, <<0, 0, 0>>, "sitkUInt16">>}
RoundTripFixed ==
    {RampImage(FixedSize, <<g[1], g[1], g[1]>>, g[2], ZMirror, g[3], 1) :
        g \in FixedGrids}

\* ---- the files and the manual settings of a run of the tendon notebook
PositionListFiles ==
    {Missing, File(ExampleList),
     File(<<Position(Num(1), Num(5)), Position(Num(3), Str)>>)}
\* spacing vectors with three different components, in two axis orders
UsSpacings ==
    {<<k, k + 1, k + 2>> : k \in 1..MaxSpacing}
       \cup {<<k + 2, k, k + 1>> : k \in 1..MaxSpacing}
MpmSpacings == {<<k, k, k>> : k \in 1..MaxSpacing}
\* the image files carry a spacing of their own
UsTifFiles ==
    {Missing,
     File(RampImage(<<MaxSize + 1, 1, MaxSize>>, <<7, 7, 7>>, <<0, 0, 0>>,
                    Identity3, "sitkUInt16", 40))}
MpmTifFiles ==
    {Missing,
     File(RampImage(<<MaxSize, MaxSize, 1>>, <<7, 7, 7>>, <<0, 0, 0>>,
                    Identity3, "sitkUInt16", 250))}
OmeFiles ==
    {Missing, File(<<Tile(2, 1, 3), BrokenTile>>),
     File(<<Tile(2, 1, 3), Tile(0, 4, 3)>>)}
\* pickled vectors: rigid parameters, a vector one short, one with a seventh
\* element, and one whose versor part is longer than 1
TransformFiles ==
    {Missing, File(<<0, 0, 2, 1, 0>>), File(<<0, 0, 2, 1, 0, 0, 9>>),
     File(<<2, 2, 0, 0, 0, 0>>)}
       \cup {File(<<v[1], v[2], v[3], 1, 0, 0>>) : v \in Versors}

ArraySizes == (1..MaxDim) \X (1..MaxDim) \X (1..MaxDim)

\* ------------------------------------------------------------------- state
VARIABLES
    rot_in,     \* SpecRotate: the image first given to rotate_axes_to_microscope
    rot_img,    \* SpecRotate: the image after rot_n applications
    rot_n,      \* SpecRotate: number of applications so far
    pl_file,    \* SpecOrigin: the position-list file
    xy_origin,  \* SpecOrigin: the outcome of get_xy_origin
    rt_moving,  \* SpecRoundTrip: the moving image
    rt_fixed,   \* SpecRoundTrip: the fixed image
    rt_params,  \* SpecRoundTrip: the transform parameter vector
    rt_fwd,     \* SpecRoundTrip: apply_transform(moving, fixed, T)
    rt_exact,   \* SpecRoundTrip: rt_fwd taken back with the exact inverse
    rt_neg,     \* SpecRoundTrip: rt_fwd taken back with -1 * T
    disk,       \* Spec: the input files and the two registered outputs
    us_spacing, \* Spec: the US spacing assigned manually (cell 5)
    mpm_spacing,        \* Spec: the MPM spacing passed to open_mpm (cell 7)
    pc,                 \* Spec: the next notebook cell to run (6..10, 11: done)
    cells,              \* Spec: per cell "not run", "ok" or the error raised
    us_xy_origin,       \* Spec: notebook variables, Unbound until assigned
    us_tendon,
    mpm_tendon,
    coordinate_transform,
    tendon_reg,
    tendon_mpm_reg

vars == <<rot_in, rot_img, rot_n, pl_file, xy_origin,
          rt_moving, rt_fixed, rt_params, rt_fwd, rt_exact, rt_neg,
          disk, us_spacing, mpm_spacing, pc, cells, us_xy_origin, us_tendon,
          mpm_tendon, coordinate_transform, tendon_reg, tendon_mpm_reg>>

rotVars == <<rot_in, rot_img, rot_n>>
originVars == <<pl_file, xy_origin>>
IdleRotate == rot_in = Idle /\ rot_img = Idle /\ rot_n = 0
IdleOrigin == pl_file = Idle /\ xy_origin = Idle
roundTripVars == <<rt_moving, rt_fixed, rt_params, rt_fwd, rt_exact, rt_neg>>
IdleRoundTrip ==
    /\ rt_moving = Idle /\ rt_fixed = Idle /\ rt_params = Idle
    /\ rt_fwd = Idle /\ rt_exact = Idle /\ rt_neg = Idle
kernelVars == <<us_xy_origin, us_tendon, mpm_tendon, coordinate_transform,
                tendon_reg, tendon_mpm_reg>>
notebookVars == <<disk, us_spacing, mpm_spacing, pc, cells, kernelVars>>
IdleNotebook ==
    /\ disk = Idle /\ us_spacing = Idle /\ mpm_spacing = Idle
    /\ pc = 0 /\ cells = Idle
    /\ us_xy_origin = Idle /\ us_tendon = Idle /\ mpm_tendon = Idle
    /\ coordinate_transform = Idle /\ tendon_reg = Idle
    /\ tendon_mpm_reg = Idle

\* ----------------------------------------------- repeated axis rotation
InitRotate ==
    /\ \E size \in ArraySizes, pixelID \in PixelIDs :
         \E base \in RampBases(pixelID) :
            rot_in = RampImage(size, <<1, 1, 1>>, <<0, 0, 0>>, Identity3,
                               pixelID, base)
    /\ rot_img = rot_in
    /\ rot_n = 0
    /\ IdleOrigin
    /\ IdleRoundTrip
    /\ IdleNotebook

Rotate ==
    /\ rot_n < MaxApply
    /\ rot_img' = rotate_axes_to_microscope(rot_img)
    /\ rot_n' = rot_n + 1
    /\ UNCHANGED <<rot_in, originVars, roundTripVars, notebookVars>>

NextRotate == Rotate

SpecRotate == InitRotate /\ [][NextRotate]_vars

\* ------------------------------------------------ claims on SpecRotate
RotIn == GetArrayFromImage(rot_in)
RotOut == GetArrayFromImage(rot_img)
\* the array with its first two axes both reversed
HalfTurn(arr) ==
    NdArray(arr.shape, arr.dtype,
            [ix \in Indices(arr.shape) |->
                arr.data[<<arr.shape[1] - 1 - ix[1], arr.shape[2] - 1 - ix[2], ix[3]>>]])

\* C10: rotate_axes_to_microscope maps an array of shape (a, b, c) to one of
\* shape (b, a, c) with out[i, j, k] = in[j, b-1-i, k] modulo 2^8 (checked on
\* the next application to every reachable image); two applications give
\* in[a-1-i, b-1-j, k], four give the original array (modulo 2^8).
C10_QuarterTurn ==
    /\ LET in == RotOut
           out == GetArrayFromImage(rotate_axes_to_microscope(rot_img))
           a == in.shape[1]
           b == in.shape[2]
           c == in.shape[3]
       IN  /\ out.shape = <<b, a, c>>
           /\ out.dtype = "uint8"
           /\ DOMAIN out.data = (0..(b-1)) \X (0..(a-1)) \X (0..(c-1))
           /\ \A i \in 0..(b-1), j \in 0..(a-1), k \in 0..(c-1) :
                 out.data[<<i, j, k>>] = in.data[<<j, b - 1 - i, k>>] % UInt8Mod
    /\ rot_n = 1 =>
          /\ RotOut.shape = <<RotIn.shape[2], RotIn.shape[1], RotIn.shape[3]>>
          /\ \A ix \in Indices(RotOut.shape) :
                RotOut.data[ix] =
                   RotIn.data[<<ix[2], RotIn.shape[2] - 1 - ix[1], ix[3]>>] % UInt8Mod
    /\ rot_n = 2 =>
          /\ RotOut.shape = RotIn.shape
          /\ \A ix \in Indices(RotIn.shape) :
                RotOut.data[ix] =
                   RotIn.data[<<RotIn.shape[1] - 1 - ix[1],
                                RotIn.shape[2] - 1 - ix[2], ix[3]>>] % UInt8Mod
    /\ rot_n = 4 => RotOut = astype_uint8(RotIn)

\* four applications to an array that is not square in its first two axes
\* and holds samples above 2^8 - 1
C10_Witness ==
    /\ rot_n = 4
    /\ RotIn.shape[1] # RotIn.shape[2]
    /\ RotIn.shape[3] > 1
    /\ \E ix \in Indices(RotIn.shape) : RotIn.data[ix] >= UInt8Mod

\* C4 as stated: applying the axis swap + flip twice returns voxel data equal
\* to the original, modulo the uint8 cast.
C4_Involution == rot_n = 2 => RotOut = astype_uint8(RotIn)

\* C4 amended: the axis swap + flip is a quarter turn, not an involution: two
\* applications return the original (modulo the cast) reversed along both of
\* its first two axes, which equals the original only when the data is
\* unchanged by that reversal; four applications return the original.
C4_TwiceIsHalfTurn ==
    /\ rot_n = 2 =>
          /\ RotOut = HalfTurn(astype_uint8(RotIn))
          /\ (RotOut = astype_uint8(RotIn))
                <=> (HalfTurn(astype_uint8(RotIn)) = astype_uint8(RotIn))
    /\ rot_n = 4 => RotOut = astype_uint8(RotIn)
    /\ rot_n >= 2 =>
          GetArrayFromImage(rotate_axes_to_microscope(rotate_axes_to_microscope(rot_img)))
             = HalfTurn(RotOut)

\* two applications to an array the reversal changes
C4_Witness ==
    /\ rot_n = 2
    /\ RotIn.shape[1] > 1
    /\ RotIn.shape[2] > 1
    /\ RotOut # astype_uint8(RotIn)

\* ------------------------------------------------- position-list origin
InitOrigin ==
    /\ pl_file \in {File(l) : l \in PositionLists} \cup {Missing}
    /\ xy_origin = Unbound
    /\ IdleRotate
    /\ IdleRoundTrip
    /\ IdleNotebook

\* notebook cell 6: us_xy_origin = get_xy_origin(us_pl_path)
GetOrigin ==
    /\ IsUnbound(xy_origin)
    /\ xy_origin' = get_xy_origin(pl_file)
    /\ UNCHANGED <<pl_file, rotVars, roundTripVars, notebookVars>>

NextOrigin == GetOrigin

SpecOrigin == InitOrigin /\ [][NextOrigin]_vars

\* ------------------------------------------------ claims on SpecOrigin
Called == ~IsUnbound(xy_origin)
HasFile == pl_file.exists
Entries == pl_file.content
Malformed == HasFile /\ \E i \in 1..Len(Entries) : Str \in {Entries[i].X, Entries[i].Y}
Xs == {Entries[i].X.v : i \in 1..Len(Entries)}
Ys == {Entries[i].Y.v : i \in 1..Len(Entries)}

\* C5: for every non-empty (well-formed) position list get_xy_origin returns
\* the component-wise minimum: the least x over all pairs and, independently,
\* the least y over all pairs; [(1,5),(3,2),(0,9)] gives (0,2).
C5_ComponentwiseMin ==
    (Called /\ HasFile /\ ~Malformed /\ Len(Entries) > 0) =>
        /\ xy_origin.ok
        /\ xy_origin.value[1] \in Xs
        /\ \A x \in Xs : xy_origin.value[1] <= x
        /\ xy_origin.value[2] \in Ys
        /\ \A y \in Ys : xy_origin.value[2] <= y
        /\ Entries = ExampleList => xy_origin.value = <<0, 2>>

\* an origin that is none of the input pairs
C5_Witness ==
    /\ Called /\ HasFile /\ ~Malformed /\ Len(Entries) > 1
    /\ xy_origin.ok
    /\ \A i \in 1..Len(Entries) :
          <<Entries[i].X.v, Entries[i].Y.v>> # xy_origin.value

ExactInverseParams(params) ==
    LET R == VersorMatrix(params[1], params[2], params[3])
        u == MatVec(Transpose(R), <<params[4], params[5], params[6]>>)
    IN  <<-params[1], -params[2], -params[3], -u[1], -u[2], -u[3]>>

InitRoundTrip ==
    /\ rt_moving \in RoundTripMoving
    /\ rt_fixed \in RoundTripFixed
    /\ rt_params \in RigidParams
    /\ rt_fwd = Unbound
    /\ rt_exact = Unbound
    /\ rt_neg = Unbound
    /\ IdleRotate
    /\ IdleOrigin
    /\ IdleNotebook

\* apply(moving, fixed, T)
Forward ==
    /\ IsUnbound(rt_fwd)
    /\ rt_fwd' = apply_transform(rt_moving, rt_fixed, rt_params)
    /\ UNCHANGED <<rt_moving, rt_fixed, rt_params, rt_exact, rt_neg,
                   rotVars, originVars, notebookVars>>

\* apply(result, original moving frame, exact inverse of T)
BackExact ==
    /\ rt_fwd.ok
    /\ IsUnbound(rt_exact)
    /\ rt_exact' = apply_transform(rt_fwd.value, rt_moving,
                                   ExactInverseParams(rt_params))
    /\ UNCHANGED <<rt_moving, rt_fixed, rt_params, rt_fwd, rt_neg,
                   rotVars, originVars, notebookVars>>

\* apply(result, original moving frame, -1 * T), the notebooks' inverse
BackNegated ==
    /\ rt_fwd.ok
    /\ IsUnbound(rt_neg)
    /\ rt_neg' = apply_transform(rt_fwd.value, rt_moving,
                                 scale_params(-1, rt_params))
    /\ UNCHANGED <<rt_moving, rt_fixed, rt_params, rt_fwd, rt_exact,
                   rotVars, originVars, notebookVars>>

NextRoundTrip == Forward \/ BackExact \/ BackNegated

SpecRoundTrip == InitRoundTrip /\ [][NextRoundTrip]_vars

\* --------------------------------------------- claims on SpecRoundTrip
RtT == SetParameters(rt_params).value
RtExactInverse == SetParameters(ExactInverseParams(rt_params)).value
RtNegated == SetParameters(scale_params(-1, rt_params)).value
RtTranslation == <<rt_params[4], rt_params[5], rt_params[6]>>

\* a continuous index (numerators over the spacing) that is a voxel of the image
OnGrid(image, off) ==
    \A i \in 1..3 :
        /\ off[i] % image.spacing[i] = 0
        /\ off[i] \div image.spacing[i] \in 0..(image.size[i] - 1)

\* where the voxel m of the moving image comes from in the fixed image
PreImage(m) ==
    Offset(rt_fixed, TransformPoint(RtExactInverse, IndexToPhysical(rt_moving, m)))

\* T maps the grid points of the fixed image to grid points of the moving
\* image or outside it, and its inverse does the same the other way round
GridToGrid ==
    /\ \A ix \in Indices(rt_fixed.size) :
          LET off == Offset(rt_moving,
                            TransformPoint(RtT, IndexToPhysical(rt_fixed, ix)))
          IN  IsInside(rt_moving, off) => OnGrid(rt_moving, off)
    /\ \A m \in Indices(rt_moving.size) :
          IsInside(rt_fixed, PreImage(m)) => OnGrid(rt_fixed, PreImage(m))

\* C2 as stated: after apply(moving, fixed, T) and apply(result, moving
\* frame, exact inverse), every voxel whose pre-image lies inside both grids
\* holds the original moving value, when T maps grid points to grid points.
C2_RoundTripExact ==
    (rt_exact.ok /\ GridToGrid) =>
        \A m \in Indices(rt_moving.size) :
            IsInside(rt_fixed, PreImage(m)) =>
                rt_exact.value.pix[m] = rt_moving.pix[m]

\* C2 amended: the same, for the voxels whose original value the fixed
\* image's sample type can hold (the intermediate image has the fixed
\* image's sample type); the result lies on the moving image's grid.
C2_RoundTripExactRepresentable ==
    (rt_exact.ok /\ GridToGrid) =>
        /\ rt_exact.value.size = rt_moving.size
        /\ rt_exact.value.pixelID = rt_moving.pixelID
        /\ \A m \in Indices(rt_moving.size) :
              (/\ IsInside(rt_fixed, PreImage(m))
               /\ rt_moving.pix[m] <= PixelMax(rt_fixed.pixelID)) =>
                  rt_exact.value.pix[m] = rt_moving.pix[m]

\* a round trip under a rotation and a translation that restores some voxels
\* and leaves others, whose pre-image is outside the fixed grid, at 0
C2_Witness ==
    /\ rt_exact.ok /\ GridToGrid
    /\ RtT.matrix # Identity3
    /\ RtTranslation # <<0, 0, 0>>
    /\ \E m \in Indices(rt_moving.size) :
          /\ IsInside(rt_fixed, PreImage(m))
          /\ rt_exact.value.pix[m] = rt_moving.pix[m]
    /\ \E m \in Indices(rt_moving.size) :
          /\ ~IsInside(rt_fixed, PreImage(m))
          /\ rt_exact.value.pix[m] # rt_moving.pix[m]

\* where the voxel ix of the fixed image is read in the moving image, as
\* numerators over the moving image's spacing
Source(ix) ==
    Offset(rt_moving, TransformPoint(RtT, IndexToPhysical(rt_fixed, ix)))
\* the point lies outside the moving image's support: on some axis its
\* continuous index is below -1/2 or not below size - 1/2
OutsideSupport(off) ==
    \E i \in 1..3 :
        \/ 2 * off[i] < -rt_moving.spacing[i]
        \/ 2 * off[i] >= (2 * rt_moving.size[i] - 1) * rt_moving.spacing[i]
\* the voxels of the moving image less than one voxel away on every axis
Neighbours(off) ==
    {m \in Indices(rt_moving.size) :
        \A i \in 1..3 :
            /\ m[i] * rt_moving.spacing[i] - off[i] < rt_moving.spacing[i]
            /\ off[i] - m[i] * rt_moving.spacing[i] < rt_moving.spacing[i]}
Clamp(pixelID, v) == IF v > PixelMax(pixelID) THEN PixelMax(pixelID) ELSE v
RECURSIVE SumOver(_)
SumOver(S) ==
    IF S = {} THEN 0
    ELSE LET m == CHOOSE m \in S : TRUE
         IN  rt_moving.pix[m] + SumOver(S \ {m})
\* every coordinate is a whole or a half voxel
HalfSteps(off) ==
    \A i \in 1..3 : (2 * off[i]) % rt_moving.spacing[i] = 0

\* C1: apply_transform(moving, fixed, T) returns an image with the fixed
\* image's spacing, origin, direction and voxel dimensions, never the moving
\* image's, and with the fixed image's pixel sample type.
C1_OutputOnFixedGrid ==
    rt_fwd.ok =>
        /\ rt_fwd.value.spacing = rt_fixed.spacing
        /\ rt_fwd.value.origin = rt_fixed.origin
        /\ rt_fwd.value.direction = rt_fixed.direction
        /\ rt_fwd.value.size = rt_fixed.size
        /\ DOMAIN rt_fwd.value.pix = Indices(rt_fixed.size)
        /\ rt_fwd.value.pixelID = rt_fixed.pixelID
        /\ \A ix \in Indices(rt_fixed.size) :
              rt_fwd.value.pix[ix] \in 0..PixelMax(rt_fixed.pixelID)

\* the moving image contains the whole fixed grid and differs from the fixed
\* image in size, spacing, origin and sample type
C1_Witness ==
    /\ rt_fwd.ok
    /\ \A ix \in Indices(rt_fixed.size) : ~OutsideSupport(Source(ix))
    /\ rt_moving.size # rt_fixed.size
    /\ rt_moving.spacing # rt_fixed.spacing
    /\ rt_moving.origin # rt_fixed.origin
    /\ rt_moving.pixelID # rt_fixed.pixelID
    /\ RtT.matrix # Identity3

\* C9: an output voxel whose position, mapped through T, falls outside the
\* moving image's support is 0; one that maps inside holds a value
\* interpolated from the moving image only: between the least and the
\* greatest of the neighbouring moving samples (cast to the output type), the
\* moving sample itself at a grid point, their mean at whole and half steps.
C9_BackgroundOutsideSupport ==
    rt_fwd.ok =>
        \A ix \in Indices(rt_fixed.size) :
            LET off == Source(ix)
                near == {rt_moving.pix[m] : m \in Neighbours(off)}
                out == rt_fwd.value.pix[ix]
                id == rt_fixed.pixelID
            IN  IF OutsideSupport(off) THEN out = 0
                ELSE /\ near # {}
                     /\ Clamp(id, SetMin(near)) <= out
                     /\ out <= Clamp(id, SetMax(near))
                     /\ OnGrid(rt_moving, off) =>
                           out = Clamp(id, rt_moving.pix[
                                     [i \in 1..3 |-> off[i] \div rt_moving.spacing[i]]])
                     /\ HalfSteps(off) =>
                           out = Clamp(id, SumOver(Neighbours(off))
                                              \div Cardinality(Neighbours(off)))

\* one output with a voxel outside the support, a voxel on a moving grid
\* point and a voxel between grid points whose neighbours differ
C9_Witness ==
    /\ rt_fwd.ok
    /\ RtT.matrix # Identity3
    /\ \E ix \in Indices(rt_fixed.size) :
          OutsideSupport(Source(ix)) /\ rt_fwd.value.pix[ix] = 0
    /\ \E ix \in Indices(rt_fixed.size) :
          /\ ~OutsideSupport(Source(ix)) /\ ~OnGrid(rt_moving, Source(ix))
          /\ Cardinality(Neighbours(Source(ix))) > 1
          /\ rt_fwd.value.pix[ix] > 0
    /\ \E ix \in Indices(rt_fixed.size) :
          OnGrid(rt_moving, Source(ix)) /\ rt_fwd.value.pix[ix] > 0

\* C3 as stated: for every T whose rotation is not the identity, the
\* transform of the negated parameters differs from the true inverse.
C3_NegationNeverInverse ==
    (rt_neg.ok /\ rt_exact.ok /\ RtT.matrix # Identity3) =>
        RtNegated # RtExactInverse

\* C3 amended: negating the parameters gives (R^-1, -t), which undoes T, and
\* is the true inverse (R^-1, -R^-1 t), exactly when the rotation leaves the
\* translation fixed (R t = t: t = 0 or t along the rotation axis); for
\* every T with R t # t it differs from the true inverse, and whenever it is
\* the true inverse the two round trips agree.
C3_NegationInverseIffFixed ==
    (rt_neg.ok /\ rt_exact.ok) =>
        LET Fixed == MatVec(RtT.matrix, RtTranslation) = RtTranslation
            points == {IndexToPhysical(rt_fixed, ix) : ix \in Indices(rt_fixed.size)}
        IN  /\ RtNegated.matrix = Transpose(RtT.matrix)
            /\ RtNegated.translation = <<-rt_params[4], -rt_params[5], -rt_params[6]>>
            /\ \A p \in points :
                  TransformPoint(RtExactInverse, TransformPoint(RtT, p)) = p
            /\ (RtNegated = RtExactInverse) <=> Fixed
            /\ (\A p \in points :
                   TransformPoint(RtNegated, TransformPoint(RtT, p)) = p) <=> Fixed
            /\ Fixed => rt_neg = rt_exact

\* a rotation that moves the translation: the two round trips differ
C3_Witness ==
    /\ rt_neg.ok /\ rt_exact.ok
    /\ RtT.matrix # Identity3
    /\ MatVec(RtT.matrix, RtTranslation) # RtTranslation
    /\ RtNegated # RtExactInverse
    /\ rt_neg.value.pix # rt_exact.value.pix

\* ------------------------------------------ the tendon notebook, cells 6-10
FirstCell == 6
LastCell == 10

\* what a cell leaves in the log: "ok" or the error that aborted it
Status(outcome) == IF outcome.ok THEN "ok" ELSE outcome.error
\* a name read before any cell has assigned it
Name(variable) == IF IsUnbound(variable) THEN Raise("NameError") ELSE variable

Init ==
    /\ \E pl \in PositionListFiles, us \in UsTifFiles, mpm \in MpmTifFiles,
          ome \in OmeFiles, tf \in TransformFiles :
          disk = [us_pl |-> pl, us_tif |-> us, mpm_tif |-> mpm, ome_tif |-> ome,
                  transform |-> tf, us_reg |-> Missing, mpm_reg |-> Missing]
    /\ us_spacing \in UsSpacings
    /\ mpm_spacing \in MpmSpacings
    /\ pc = FirstCell
    /\ cells = [c \in FirstCell..LastCell |-> "not run"]
    /\ us_xy_origin = Unbound
    /\ us_tendon = Unbound
    /\ mpm_tendon = Unbound
    /\ coordinate_transform = Unbound
    /\ tendon_reg = Unbound
    /\ tendon_mpm_reg = Unbound
    /\ IdleRotate
    /\ IdleOrigin
    /\ IdleRoundTrip

otherVars == <<rotVars, originVars, roundTripVars>>

\* cell 6: us_xy_origin = get_xy_origin(us_pl_path)
RunCell6 ==
    /\ pc = 6
    /\ LET r == get_xy_origin(disk.us_pl)
       IN  /\ us_xy_origin' = IF r.ok THEN r ELSE us_xy_origin
           /\ cells' = [cells EXCEPT ![6] = Status(r)]
    /\ pc' = pc + 1
    /\ UNCHANGED <<disk, us_spacing, mpm_spacing, us_tendon, mpm_tendon,
                   coordinate_transform, tendon_reg, tendon_mpm_reg, otherVars>>

\* cell 7: tendon_origin, us_tendon = open_us(...), mpm_tendon = open_mpm(...)
RunCell7 ==
    /\ pc = 7
    /\ LET xy == Name(us_xy_origin)
           us == IF ~xy.ok THEN xy
                 ELSE open_us(disk.us_tif, dynamic_range, us_spacing,
                              <<xy.value[1], xy.value[2], 4>>)
           mpm == IF ~us.ok THEN us
                  ELSE open_mpm(disk.mpm_tif, disk.ome_tif, mpm_spacing)
       IN  /\ us_tendon' = IF us.ok THEN us ELSE us_tendon
           /\ mpm_tendon' = IF mpm.ok THEN mpm ELSE mpm_tendon
           /\ cells' = [cells EXCEPT ![7] = Status(mpm)]
    /\ pc' = pc + 1
    /\ UNCHANGED <<disk, us_spacing, mpm_spacing, us_xy_origin,
                   coordinate_transform, tendon_reg, tendon_mpm_reg, otherVars>>

\* cell 8: coordinate_transform = pickle.load(fp)
RunCell8 ==
    /\ pc = 8
    /\ LET r == pickle_load(disk.transform)
       IN  /\ coordinate_transform' = IF r.ok THEN r ELSE coordinate_transform
           /\ cells' = [cells EXCEPT ![8] = Status(r)]
    /\ pc' = pc + 1
    /\ UNCHANGED <<disk, us_spacing, mpm_spacing, us_xy_origin, us_tendon,
                   mpm_tendon, tendon_reg, tendon_mpm_reg, otherVars>>

\* the three names a registration cell reads
Operands(moving, fixed) ==
    IF ~Name(moving).ok THEN Name(moving)
    ELSE IF ~Name(fixed).ok THEN Name(fixed)
    ELSE Name(coordinate_transform)

\* cell 9: tendon_reg = apply_transform(us_tendon, mpm_tendon,
\* coordinate_transform); sitk.WriteImage(tendon_reg, ...)
RunCell9 ==
    /\ pc = 9
    /\ LET names == Operands(us_tendon, mpm_tendon)
           r == IF ~names.ok THEN names
                ELSE apply_transform(us_tendon.value, mpm_tendon.value,
                                     coordinate_transform.value)
       IN  /\ tendon_reg' = IF r.ok THEN r ELSE tendon_reg
           /\ disk' = IF r.ok THEN [disk EXCEPT !.us_reg = WriteImage(r.value)]
                      ELSE disk
           /\ cells' = [cells EXCEPT ![9] = Status(r)]
    /\ pc' = pc + 1
    /\ UNCHANGED <<us_spacing, mpm_spacing, us_xy_origin, us_tendon,
                   mpm_tendon, coordinate_transform, tendon_mpm_reg, otherVars>>

\* cell 10: tendon_mpm_reg = apply_transform(mpm_tendon, us_tendon,
\* -1*coordinate_transform); sitk.WriteImage(tendon_mpm_reg, ...)
RunCell10 ==
    /\ pc = 10
    /\ LET names == Operands(mpm_tendon, us_tendon)
           r == IF ~names.ok THEN names
                ELSE apply_transform(mpm_tendon.value, us_tendon.value,
                                     scale_params(-1, coordinate_transform.value))
       IN  /\ tendon_mpm_reg' = IF r.ok THEN r ELSE tendon_mpm_reg
           /\ disk' = IF r.ok THEN [disk EXCEPT !.mpm_reg = WriteImage(r.value)]
                      ELSE disk
           /\ cells' = [cells EXCEPT ![10] = Status(r)]
    /\ pc' = pc + 1
    /\ UNCHANGED <<us_spacing, mpm_spacing, us_xy_origin, us_tendon,
                   mpm_tendon, coordinate_transform, tendon_reg, otherVars>>

Next == RunCell6 \/ RunCell7 \/ RunCell8 \/ RunCell9 \/ RunCell10

Spec == Init /\ [][Next]_vars

\* ------------------------------------------------------ claims on Spec
\* the cells a registered output depends on all ran without error
CellsOk(S) == \A c \in S : cells[c] = "ok"

\* a run's order (not one of the numbered claims): an output file exists
\* only once the cells that produce it have all completed without error
WrittenOnlyAfterSuccess ==
    /\ disk.us_reg.exists => (CellsOk({6, 7, 8, 9}) /\ pc > 9)
    /\ disk.mpm_reg.exists => (CellsOk({6, 7, 8, 10}) /\ pc > 10)

\* C6: the image built by open_us / open_mpm carries the spacing vector it
\* was given, component for component and in the same axis order, whatever
\* the axis swap and flip did to the voxel data and whatever spacing the
\* source file holds.
C6_SpacingPreserved ==
    /\ us_tendon.ok =>
          /\ us_tendon.value.spacing = us_spacing
          /\ \A i \in 1..3 : us_tendon.value.spacing[i] = us_spacing[i]
    /\ mpm_tendon.ok =>
          /\ mpm_tendon.value.spacing = mpm_spacing
          /\ \A i \in 1..3 : mpm_tendon.value.spacing[i] = mpm_spacing[i]

\* both images opened; the US voxel data had its axes swapped, and the
\* spacing given is neither the files' own nor the default one
C6_Witness ==
    /\ us_tendon.ok /\ mpm_tendon.ok
    /\ us_tendon.value.size # disk.us_tif.content.size
    /\ us_tendon.value.spacing # disk.us_tif.content.spacing
    /\ us_tendon.value.spacing # <<1, 1, 1>>
    /\ mpm_tendon.value.spacing # disk.mpm_tif.content.spacing
    /\ us_tendon.value.spacing[1] # us_tendon.value.spacing[2]

\* every input of a registered output is present and well formed
InputsValid ==
    /\ disk.us_pl.exists /\ disk.us_tif.exists /\ disk.mpm_tif.exists
    /\ disk.ome_tif.exists /\ disk.transform.exists
    /\ \A i \in 1..Len(disk.us_pl.content) :
          Str \notin {disk.us_pl.content[i].X, disk.us_pl.content[i].Y}
    /\ \A i \in 1..Len(disk.ome_tif.content) : disk.ome_tif.content[i].complete
    /\ Len(disk.transform.content) = NumberOfParameters

\* C8: a registered output is written only after the loads, the frame
\* construction, the transform load and the resample that produce it have all
\* completed successfully; a missing file, malformed metadata or a transform
\* vector that is not a 6-element rigid-transform vector ends in an error and
\* the output that depends on it is never written.
C8_OutputOnlyFromValidRun ==
    /\ disk.us_reg.exists => (CellsOk({6, 7, 8, 9}) /\ InputsValid)
    /\ disk.mpm_reg.exists => (CellsOk({6, 7, 8, 10}) /\ InputsValid)
    /\ (pc > LastCell /\ ~InputsValid) =>
          \E c \in FirstCell..LastCell : cells[c] \notin {"ok", "not run"}

====
